---- MODULE Spec2Model ----
(***************************************************************************)
(* Weekly repair-claims report generator (src/src/generate_report.py).     *)
(*                                                                         *)
(* The model follows main(): select the week window, load the CSV, filter  *)
(* the week, validate, compute the KPIs, write the workbook.               *)
(*                                                                         *)
(* Representation.                                                         *)
(*   - A Python str is a sequence of one-character strings.                *)
(*   - A calendar date is its proleptic ordinal (date.toordinal()); the    *)
(*     text of a date in the CSV or on the command line is the decimal     *)
(*     text of that ordinal, and parsing it is a real digit-by-digit parse.*)
(*   - A nullable value (NaT, NaN, None) is the empty tuple << >>, a       *)
(*     present value v is the one-element tuple <<v>>.                     *)
(*   - A DataFrame is [columns, index, rows]: the ordered column labels,   *)
(*     the row labels and, per row, a function from column label to value. *)
(***************************************************************************)
EXTENDS Integers, Sequences, FiniteSets

\* ------------------------------------------------------------------ bounds

\* Most data rows in the input CSV.
MaxRows == 3

\* Most data rows where every combination of the validated fields is drawn.
MaxValidateRows == 2

\* Number of consecutive reference dates ("today") explored.
DaySpan == 7

\* ------------------------------------------------------- characters, strings

Upper == <<"A","B","C","D","E","F","G","H","I","J","K","L","M",
           "N","O","P","Q","R","S","T","U","V","W","X","Y","Z">>

LowerCase == <<"a","b","c","d","e","f","g","h","i","j","k","l","m",
               "n","o","p","q","r","s","t","u","v","w","x","y","z">>

DigitChars == <<"0","1","2","3","4","5","6","7","8","9">>

\* The characters of the model in code-point order.
Alphabet == <<" ", "-", "/">> \o DigitChars \o Upper \o LowerCase

IndexIn(c, seq) == CHOOSE i \in 1..Len(seq) : seq[i] = c

Ord(c) == IndexIn(c, Alphabet)

IsIn(c, seq) == \E i \in 1..Len(seq) : seq[i] = c

\* str.lower(), one character
LowerChar(c) == IF IsIn(c, Upper) THEN LowerCase[IndexIn(c, Upper)] ELSE c

\* str.lower()
Lower(s) == [i \in 1..Len(s) |-> LowerChar(s[i])]

RECURSIVE LStrip(_)
LStrip(s) == IF s # << >> /\ Head(s) = " " THEN LStrip(Tail(s)) ELSE s

RECURSIVE RStrip(_)
RStrip(s) == IF s # << >> /\ s[Len(s)] = " " THEN RStrip(SubSeq(s, 1, Len(s) - 1)) ELSE s

\* str.strip()
Strip(s) == RStrip(LStrip(s))

\* Python's str ordering: s < t, lexicographic by code point.
RECURSIVE StrLess(_, _)
StrLess(s, t) ==
    IF t = << >> THEN FALSE
    ELSE IF s = << >> THEN TRUE
    ELSE IF Head(s) = Head(t) THEN StrLess(Tail(s), Tail(t))
    ELSE Ord(Head(s)) < Ord(Head(t))

\* ------------------------------------------------------------------- dates

IsDateText(s) == s # << >> /\ \A i \in 1..Len(s) : IsIn(s[i], DigitChars)

RECURSIVE DigitsValue(_)
DigitsValue(s) ==
    IF s = << >> THEN 0
    ELSE 10 * DigitsValue(SubSeq(s, 1, Len(s) - 1)) + (IndexIn(s[Len(s)], DigitChars) - 1)

\* pd.to_datetime(text, errors="coerce").dt.date: the date, or NaT.
ParseDate(s) == IF IsDateText(s) THEN <<DigitsValue(s)>> ELSE << >>

\* date.isoformat()
RECURSIVE DateText(_)
DateText(d) ==
    IF d < 10 THEN <<DigitChars[d + 1]>>
    ELSE DateText(d \div 10) \o <<DigitChars[(d % 10) + 1]>>

\* date.weekday(): Monday = 0. Ordinal 1 (0001-01-01) is a Monday.
Weekday(d) == (d + 6) % 7

\* ------------------------------------------------------ program constants

New == <<"N","e","w">>
InProgress == <<"I","n"," ","P","r","o","g","r","e","s","s">>
Completed == <<"C","o","m","p","l","e","t","e","d">>
OnHold == <<"O","n"," ","H","o","l","d">>

ALLOWED_STATUSES == {New, InProgress, Completed, OnHold}

REQUIRED_COLUMNS ==
    <<"claim_id", "branch", "line_of_service", "is_assignment", "received_date",
      "assigned_pm", "assigned_date", "status", "dash_job_id", "completed_date">>

TruthyTokens == {<<"y","e","s">>, <<"y">>, <<"t","r","u","e">>, <<"1">>}

DateColumns == <<"received_date", "assigned_date", "completed_date">>

StringColumns == <<"branch", "line_of_service", "status", "is_assignment", "assigned_pm">>

Range(seq) == {seq[i] : i \in 1..Len(seq)}

\* ------------------------------------------------------------------- state

VARIABLES
    pc,                 \* position in main()
    today,              \* datetime.now(tz).date(), as an ordinal
    week_start,         \* args.week_start: << >> (omitted) or <<text>>
    sla_assign_days,    \* args.sla_assign_days
    sla_complete_days,  \* args.sla_complete_days
    csv,                \* the input file: [columns, rows] of cell texts
    argsort_rank,       \* how this build's unstable argsort orders equal keys
    start,              \* << >> until the window is selected, then <<date>>
    end,
    df,                 \* load_data's frame
    df_week,            \* filter_week's frame, as main() holds it
    errors_df,          \* validate's issues
    kpis,               \* compute_kpis' results: << >> or <<[out, by_branch, by_service, by_pm]>>
    report              \* the workbook written: << >> or <<[...]>>

vars == <<pc, today, week_start, sla_assign_days, sla_complete_days, csv, argsort_rank,
          start, end, df, df_week, errors_df, kpis, report>>

inputs == <<today, week_start, sla_assign_days, sla_complete_days, csv, argsort_rank>>

NoFrame == [columns |-> << >>, index |-> << >>, rows |-> << >>]

HasColumn(frame, c) == c \in Range(frame.columns)

Has(frame, cols) == cols \subseteq Range(frame.columns)

\* -------------------------------------------------------------- the window

\* Mutant of last_full_week: the "+ 1" of line 38 dropped.
last_full_week_off_by_one(t) ==
    LET weekday == Weekday(t)
        e == t - weekday
        s == e - 6
    IN  <<s, e>>

\* last_full_week(): the last Monday..Sunday range that ended before today.
last_full_week(t) ==
    LET weekday == Weekday(t)
        e == t - (weekday + 1)
        s == e - 6
    IN  <<s, e>>

\* main(), explicit mode: start = strptime(week_start), end = start + 6 days.
explicit_week(text) ==
    LET s == DigitsValue(text)
    IN  <<s, s + 6>>

\* ---------------------------------------------------------------- load_data

\* One cell after load_data: dates parsed (NaT on failure), strings stripped.
\* read_csv(dtype=str).fillna("") leaves every cell a str, the empty cell "".
LoadCell(c, text) ==
    IF c \in Range(DateColumns) THEN ParseDate(text)
    ELSE IF c \in Range(StringColumns) THEN Strip(text)
    ELSE text

load_data(file) ==
    [columns |-> file.columns,
     index   |-> [i \in 1..Len(file.rows) |-> i - 1],
     rows    |-> [i \in 1..Len(file.rows) |->
                    [c \in Range(file.columns) |-> LoadCell(c, file.rows[i][c])]]]

\* -------------------------------------------------------------- filter_week

\* Mutant of InWeek: the upper bound exclusive.
InWeekExclusiveEnd(row, s, e) ==
    /\ row["received_date"] # << >>
    /\ row["received_date"][1] >= s
    /\ row["received_date"][1] < e

\* (df["received_date"] >= start) & (df["received_date"] <= end), one row.
\* A comparison with NaT is False.
InWeek(row, s, e) ==
    /\ row["received_date"] # << >>
    /\ row["received_date"][1] >= s
    /\ row["received_date"][1] <= e

RECURSIVE MaskedPositions(_, _, _, _)
MaskedPositions(frame, s, e, i) ==
    IF i > Len(frame.rows) THEN << >>
    ELSE (IF InWeek(frame.rows[i], s, e) THEN <<i>> ELSE << >>)
         \o MaskedPositions(frame, s, e, i + 1)

\* df.loc[mask].copy(): the selected rows, with their labels, in order.
filter_week(frame, s, e) ==
    LET keep == MaskedPositions(frame, s, e, 1)
    IN  [columns |-> frame.columns,
         index   |-> [k \in 1..Len(keep) |-> frame.index[keep[k]]],
         rows    |-> [k \in 1..Len(keep) |-> frame.rows[keep[k]]]]

\* ----------------------------------------------------------------- validate

Issue(r, f, msg) == [row |-> r, field |-> f, issue |-> msg]

IsTruthy(text) == Lower(text) \in TruthyTokens

StatusIssue(idx, row) ==
    IF row["status"] # << >> /\ row["status"] \notin ALLOWED_STATUSES
    THEN <<Issue(<<idx>>, "status", <<"Invalid status", row["status"]>>)>>
    ELSE << >>

DashIssue(idx, row) ==
    IF row["status"] \in {InProgress, Completed, OnHold} /\ row["dash_job_id"] = << >>
    THEN <<Issue(<<idx>>, "dash_job_id", <<"Missing DASH job id for active/closed claim">>)>>
    ELSE << >>

AssignmentIssues(idx, row) ==
    IF IsTruthy(row["is_assignment"])
    THEN (IF row["assigned_pm"] = << >>
          THEN <<Issue(<<idx>>, "assigned_pm", <<"Missing assigned PM on assignment">>)>>
          ELSE << >>)
         \o
         (IF row["assigned_date"] = << >>
          THEN <<Issue(<<idx>>, "assigned_date", <<"Missing assigned_date on assignment">>)>>
          ELSE << >>)
    ELSE << >>

\* Mutant of RowIssues: the job id demanded of every claim that has a status.
RowIssuesDashForAnyStatus(idx, row) ==
    StatusIssue(idx, row)
    \o (IF row["status"] # << >> /\ row["dash_job_id"] = << >>
        THEN <<Issue(<<idx>>, "dash_job_id", <<"Missing DASH job id for active/closed claim">>)>>
        ELSE << >>)
    \o AssignmentIssues(idx, row)

\* The body of the row loop.
RowIssues(idx, row) ==
    StatusIssue(idx, row) \o DashIssue(idx, row) \o AssignmentIssues(idx, row)

RECURSIVE RowLoop(_, _)
RowLoop(frame, i) ==
    IF i > Len(frame.rows) THEN << >>
    ELSE RowIssues(frame.index[i], frame.rows[i]) \o RowLoop(frame, i + 1)

MissingCols(frame) == SelectSeq(REQUIRED_COLUMNS, LAMBDA c : ~HasColumn(frame, c))

\* Mutant of validate: one schema issue for each missing column.
validate_issue_per_column(frame) ==
    LET missing_cols == MissingCols(frame)
    IN  IF missing_cols # << >>
        THEN [m \in 1..Len(missing_cols) |->
                Issue(<< >>, "schema", <<"Missing required column", missing_cols[m]>>)]
        ELSE RowLoop(frame, 1)

\* The row label of the schema issue is "-", written << >> here.
validate(frame) ==
    LET missing_cols == MissingCols(frame)
    IN  IF missing_cols # << >>
        THEN <<Issue(<< >>, "schema", <<"Missing required columns", missing_cols>>)>>
        ELSE RowLoop(frame, 1)

\* ------------------------------------------------------------- compute_kpis

Positions(frame) == 1..Len(frame.rows)

\* (to_datetime(later) - to_datetime(earlier)).dt.days, one row: NaN if either is NaT.
DaysBetween(row, later, earlier) ==
    IF row[later] = << >> \/ row[earlier] = << >> THEN << >>
    ELSE <<row[later][1] - row[earlier][1]>>

\* df[name] = values: the column is appended, or overwritten when it exists.
SetColumn(frame, name, values) ==
    [columns |-> IF HasColumn(frame, name) THEN frame.columns
                 ELSE Append(frame.columns, name),
     index   |-> frame.index,
     rows    |-> [i \in 1..Len(frame.rows) |->
                    [c \in Range(frame.columns) \cup {name} |->
                        IF c = name THEN values[i] ELSE frame.rows[i][c]]]]

AssignLagOf(row) == DaysBetween(row, "assigned_date", "received_date")

ResolutionOf(row) == DaysBetween(row, "completed_date", "received_date")

\* line 98
WithAssignLag(frame) ==
    SetColumn(frame, "assign_lag_days", [i \in Positions(frame) |-> AssignLagOf(frame.rows[i])])

\* line 99
WithResolution(frame) ==
    SetColumn(frame, "resolution_days", [i \in Positions(frame) |-> ResolutionOf(frame.rows[i])])

\* Mutant of StatusCount: a claim without a status counted as New.
StatusCountEmptyAsNew(frame, s) ==
    Cardinality({i \in Positions(frame) :
                    \/ frame.rows[i]["status"] = s
                    \/ s = New /\ frame.rows[i]["status"] = << >>})

\* (df["status"] == s).sum()
StatusCount(frame, s) == Cardinality({i \in Positions(frame) : frame.rows[i]["status"] = s})

\* df["is_assignment"].str.lower().isin([...]).sum()
AssignmentCount(frame) ==
    Cardinality({i \in Positions(frame) : IsTruthy(frame.rows[i]["is_assignment"])})

RECURSIVE SumOver(_, _, _)
SumOver(frame, col, i) ==
    IF i > Len(frame.rows) THEN 0
    ELSE (IF frame.rows[i][col] = << >> THEN 0 ELSE frame.rows[i][col][1])
         + SumOver(frame, col, i + 1)

\* round(x, 2) of the exact quotient total / n, in hundredths (ties to even).
RoundHundredths(total, n) ==
    LET q    == 100 * total
        low  == q \div n
        rest == q - n * low
    IN  IF 2 * rest < n THEN low
        ELSE IF 2 * rest > n THEN low + 1
        ELSE IF low % 2 = 0 THEN low ELSE low + 1

\* round(float(df[col].dropna().mean()), 2) if df[col].notna().any() else nan
RoundedMean(frame, col) ==
    LET n == Cardinality({i \in Positions(frame) : frame.rows[i][col] # << >>})
    IN  IF n = 0 THEN << >> ELSE <<RoundHundredths(SumOver(frame, col, 1), n)>>

\* Mutant of AssignBreaches: the threshold itself counted as a breach.
AssignBreachesAtThreshold(frame, sla) ==
    Cardinality({i \in Positions(frame) :
                    /\ frame.rows[i]["assign_lag_days"] # << >>
                    /\ frame.rows[i]["assign_lag_days"][1] >= sla})

\* (df["assign_lag_days"] > sla_assign_days).sum(); NaN > n is False
AssignBreaches(frame, sla) ==
    Cardinality({i \in Positions(frame) :
                    /\ frame.rows[i]["assign_lag_days"] # << >>
                    /\ frame.rows[i]["assign_lag_days"][1] > sla})

\* (df.loc[comp_mask, "resolution_days"] > sla_complete_days).sum()
CompleteBreaches(frame, sla) ==
    Cardinality({i \in Positions(frame) :
                    /\ frame.rows[i]["resolution_days"] # << >>
                    /\ frame.rows[i]["resolution_days"][1] > sla})

\* The `out` mapping; the two thresholds are part of their metrics' names.
KpiOut(frame, sla_a, sla_c) ==
    LET total == Len(frame.rows)
    IN  [total_claims       |-> total,
         assignments        |-> AssignmentCount(frame),
         non_assignments    |-> total - AssignmentCount(frame),
         status             |-> [s \in ALLOWED_STATUSES |-> StatusCount(frame, s)],
         avg_assign_lag     |-> RoundedMean(frame, "assign_lag_days"),
         avg_resolution     |-> RoundedMean(frame, "resolution_days"),
         assign_threshold   |-> sla_a,
         assign_breaches    |-> AssignBreaches(frame, sla_a),
         complete_threshold |-> sla_c,
         complete_breaches  |-> CompleteBreaches(frame, sla_c)]

\* Mutant of GroupKeys: the rows with an empty key left out of the grouping.
GroupKeysDropEmpty(frame, key) == {frame.rows[i][key] : i \in Positions(frame)} \ {<< >>}

\* The group keys of groupby(key, dropna=False): every value of the column.
GroupKeys(frame, key) == {frame.rows[i][key] : i \in Positions(frame)}

\* ["claim_id"].count() of one group: its rows whose claim_id is not NaN.
\* After fillna("") a claim_id is always a str, so every row of the group counts.
GroupCount(frame, key, k) == Cardinality({i \in Positions(frame) : frame.rows[i][key] = k})

\* groupby sorts the group keys ascending.
RECURSIVE SortedKeys(_)
SortedKeys(keys) ==
    IF keys = {} THEN << >>
    ELSE LET least == CHOOSE k \in keys : \A other \in keys : ~StrLess(other, k)
         IN  <<least>> \o SortedKeys(keys \ {least})

\* df.groupby(key, dropna=False)["claim_id"].count().reset_index(name="count")
GroupTable(frame, key) ==
    LET ks == SortedKeys(GroupKeys(frame, key))
    IN  [g \in 1..Len(ks) |-> [key |-> ks[g], count |-> GroupCount(frame, key, ks[g])]]

\* Position p of the table goes before position q in the sorted result.
\* sort_values' default kind is quicksort, which is not stable: where the counts
\* are equal the order is the build's, given by rank.
SortsBefore(table, rank, p, q) ==
    \/ table[p].count > table[q].count
    \/ table[p].count = table[q].count /\ rank[p] < rank[q]

RECURSIVE Arrange(_, _, _)
Arrange(table, rank, left) ==
    IF left = {} THEN << >>
    ELSE LET first == CHOOSE p \in left :
                         \A q \in left \ {p} : SortsBefore(table, rank, p, q)
         IN  <<table[first]>> \o Arrange(table, rank, left \ {first})

\* .sort_values("count", ascending=False)
SortValues(table, rank) == Arrange(table, rank, DOMAIN table)

Breakdown(frame, key, rank) == SortValues(GroupTable(frame, key), rank)

\* The columns compute_kpis reads up to and including line 98, and in the
\* groupings: the first one absent raises KeyError.
ReadBeforeLags == {"is_assignment", "status", "assigned_date", "received_date"}

ReadByGroupings == {"branch", "claim_id", "line_of_service", "assigned_pm"}

\* The frame as compute_kpis leaves it, whether it returns or raises.
FrameAfterKpis(frame) ==
    IF ~Has(frame, ReadBeforeLags) THEN frame
    ELSE IF ~HasColumn(frame, "completed_date") THEN WithAssignLag(frame)
    ELSE WithResolution(WithAssignLag(frame))

KpisRaise(frame) ==
    ~Has(frame, ReadBeforeLags \cup {"completed_date"} \cup ReadByGroupings)

\* What compute_kpis returns.
compute_kpis(frame, sla_a, sla_c, rank) ==
    LET after == FrameAfterKpis(frame)
    IN  [out        |-> KpiOut(after, sla_a, sla_c),
         by_branch  |-> Breakdown(after, "branch", rank),
         by_service |-> Breakdown(after, "line_of_service", rank),
         by_pm      |-> Breakdown(after, "assigned_pm", rank)]

\* -------------------------------------------------------------- write_excel

\* The workbook: its path and sheets. The Errors sheet exists only when there
\* are issues.
write_excel(report_date, results, frame, errors) ==
    [path       |-> <<"weekly_report_", report_date, ".xlsx">>,
     summary    |-> results.out,
     by_branch  |-> results.by_branch,
     by_service |-> results.by_service,
     by_pm      |-> results.by_pm,
     raw_data   |-> frame,
     errors     |-> IF errors = << >> THEN << >> ELSE <<errors>>,
     chart_rows |-> Len(results.by_branch) + 1]

\* ------------------------------------------------------------------ actions

\* `if args.week_start:` is false for None and for the empty string.
WeekStartGiven == week_start # << >> /\ week_start[1] # << >>

\* main(), lines 163-167. strptime raises on text that is no date.
SelectWeek ==
    /\ pc = "main"
    /\ IF WeekStartGiven /\ ~IsDateText(week_start[1])
       THEN /\ pc' = "aborted"
            /\ UNCHANGED <<start, end>>
       ELSE /\ pc' = "load_data"
            /\ LET window == IF WeekStartGiven THEN explicit_week(week_start[1])
                             ELSE last_full_week(today)
               IN  /\ start' = <<window[1]>>
                   /\ end' = <<window[2]>>
    /\ UNCHANGED <<inputs, df, df_week, errors_df, kpis, report>>

\* main(), line 169
LoadData ==
    /\ pc = "load_data"
    /\ df' = load_data(csv)
    /\ pc' = "filter_week"
    /\ UNCHANGED <<inputs, start, end, df_week, errors_df, kpis, report>>

\* main(), line 170. df["received_date"] raises KeyError without the column.
FilterWeek ==
    /\ pc = "filter_week"
    /\ IF HasColumn(df, "received_date")
       THEN /\ df_week' = filter_week(df, start[1], end[1])
            /\ pc' = "validate"
       ELSE /\ pc' = "aborted"
            /\ UNCHANGED df_week
    /\ UNCHANGED <<inputs, start, end, df, errors_df, kpis, report>>

\* main(), line 172
Validate ==
    /\ pc = "validate"
    /\ errors_df' = validate(df_week)
    /\ pc' = "compute_kpis"
    /\ UNCHANGED <<inputs, start, end, df, df_week, kpis, report>>

\* main(), lines 173-177. compute_kpis assigns its two lag columns into the
\* frame it is given, which is main()'s df_week.
ComputeKpis ==
    /\ pc = "compute_kpis"
    /\ df_week' = FrameAfterKpis(df_week)
    /\ IF KpisRaise(df_week)
       THEN /\ pc' = "aborted"
            /\ UNCHANGED kpis
       ELSE /\ pc' = "write_excel"
            /\ kpis' = <<compute_kpis(df_week, sla_assign_days, sla_complete_days,
                                      argsort_rank)>>
    /\ UNCHANGED <<inputs, start, end, df, errors_df, report>>

\* main(), lines 179-180
WriteExcel ==
    /\ pc = "write_excel"
    /\ report' = <<write_excel(DateText(end[1]), kpis[1], df_week, errors_df)>>
    /\ pc' = "done"
    /\ UNCHANGED <<inputs, start, end, df, df_week, errors_df, kpis>>

Next ==
    \/ SelectWeek
    \/ LoadData
    \/ FilterWeek
    \/ Validate
    \/ ComputeKpis
    \/ WriteExcel

\* ------------------------------------------------------------------- inputs

SeqsUpTo(S, n) == UNION {[1..k -> S] : k \in 0..n}

RankOrders(n) == {f \in [1..n -> 1..n] : \A i, j \in 1..n : i # j => f[i] # f[j]}

Identity(n) == [i \in 1..n |-> i]

Without(missing) == SelectSeq(REQUIRED_COLUMNS, LAMBDA c : c \notin missing)

AllColumns == Without({})

\* One line of the CSV, cell texts by column.
Row(claim, branch, los, isa, recv, pm, adate, status, dash, cdate) ==
    [c \in Range(REQUIRED_COLUMNS) |->
        CASE c = "claim_id"        -> claim
          [] c = "branch"          -> branch
          [] c = "line_of_service" -> los
          [] c = "is_assignment"   -> isa
          [] c = "received_date"   -> recv
          [] c = "assigned_pm"     -> pm
          [] c = "assigned_date"   -> adate
          [] c = "status"          -> status
          [] c = "dash_job_id"     -> dash
          [] c = "completed_date"  -> cdate]

\* The state main() starts in: the command line, the clock, the file and the
\* build's sort, drawn from the given sets.
InitWith(Todays, WeekStarts, Slas, ColumnLists, RowDomain, maxRows, Ranks) ==
    /\ pc = "main"
    /\ today \in Todays
    /\ week_start \in WeekStarts
    /\ \E sla \in Slas :
          /\ sla_assign_days = sla[1]
          /\ sla_complete_days = sla[2]
    /\ \E cols \in ColumnLists, lines \in SeqsUpTo(RowDomain, maxRows) :
          csv = [columns |-> cols,
                 rows    |-> [i \in 1..Len(lines) |->
                                [c \in Range(cols) |-> lines[i][c]]]]
    /\ argsort_rank \in Ranks
    /\ start = << >>
    /\ end = << >>
    /\ df = NoFrame
    /\ df_week = NoFrame
    /\ errors_df = << >>
    /\ kpis = << >>
    /\ report = << >>

\* Reference dates: today - 13 days must still be a date (ordinal >= 1).
Todays == 14..(13 + DaySpan)

Empty == << >>
Junk == <<"n", "/", "a">>
BranchX == <<"X">>
BranchY == <<"Y">>
Mitigation == <<"M">>
Reconstruction == <<"R">>
Alex == <<"A","l">>
Yes == <<"Y","e","s">>
No == <<"N","o">>
Job == <<"D","-","1">>
Done == <<"D","o","n","e">>
DefaultSla == {<<1, 7>>}

\* ---- the week window, every reference date, both modes
WeekRows == {Row(<<"A">>, BranchX, Mitigation, No, recv, Empty, Empty, New, Empty, Empty) :
                recv \in {DateText(7), DateText(8)}}

InitWeek ==
    InitWith(Todays,
             {<< >>, <<Empty>>, <<DateText(8)>>, <<DateText(3)>>, <<Junk>>},
             DefaultSla, {AllColumns}, WeekRows, MaxRows, RankOrders(MaxRows))

SpecWeek == InitWeek /\ [][Next]_vars

\* ---- the filter: dates missing, unparsable, and on both sides of both bounds
FilterRows == {Row(<<"A">>, BranchX, Mitigation, No, recv, Empty, Empty, New, Empty, Empty) :
                  recv \in {Empty, Junk, DateText(1), DateText(7), DateText(8),
                            DateText(14), DateText(15)}}

InitFilter ==
    InitWith(Todays, {<< >>, <<DateText(8)>>}, DefaultSla, {AllColumns},
             FilterRows, MaxRows, {Identity(MaxRows)})

SpecFilter == InitFilter /\ [][Next]_vars

\* ---- validation: every combination of the fields the row checks read
ValidationRows ==
    {Row(<<"A">>, BranchX, Mitigation, No, DateText(8), Empty, Empty, status, dash, Empty) :
        status \in {Empty, New, Completed, Done}, dash \in {Empty, Job}}
    \cup
    {Row(<<"A">>, BranchX, Mitigation, Yes, DateText(8), pm, adate, sd[1], sd[2], Empty) :
        pm \in {Empty, Alex}, adate \in {Empty, DateText(9)},
        sd \in {<<Empty, Empty>>, <<Completed, Empty>>, <<Completed, Job>>, <<Done, Empty>>}}
    \cup
    {Row(<<"A">>, BranchX, Mitigation, is[1], DateText(9), Empty, Junk, is[2], <<" ">>, Empty) :
        is \in {<<<<"T","R","U","E">>, InProgress>>,
                <<<<" ","y">>, <<" ","O","n"," ","H","o","l","d"," ">>>>,
                <<<<"1">>, OnHold>>,
                <<<<"o","n">>, InProgress>>}}
    \cup
    {Row(<<"A">>, BranchX, Mitigation, Yes, DateText(15), Empty, Empty, Done, Empty, Empty)}

InitValidate ==
    InitWith({15}, {<< >>}, DefaultSla, {AllColumns}, ValidationRows, MaxValidateRows,
             {Identity(MaxRows)})

SpecValidate == InitValidate /\ [][Next]_vars

\* ---- the schema: every set of absent columns
SchemaRows ==
    {Row(<<"A">>, BranchX, Mitigation, No, DateText(8), Empty, Empty, New, Empty, Empty),
     Row(<<"B">>, BranchY, Reconstruction, Yes, DateText(9), Empty, Empty, Done, Empty, Empty),
     Row(<<"C">>, BranchX, Mitigation, Yes, DateText(15), Alex, DateText(15), Completed, Job,
         DateText(16))}

InitSchema ==
    InitWith({15}, {<< >>}, DefaultSla,
             {Without(missing) : missing \in SUBSET Range(REQUIRED_COLUMNS)},
             SchemaRows, MaxValidateRows, {Identity(MaxRows)})

SpecSchema == InitSchema /\ [][Next]_vars

\* ---- the breakdowns: empty and repeated group keys, every tie order
BreakdownRows ==
    {Row(<<"A">>, BranchX, Mitigation, No, DateText(8), Alex, Empty, New, Empty, Empty),
     Row(Empty, <<"X", " ">>, Reconstruction, No, DateText(8), Empty, Empty, New, Empty, Empty),
     Row(<<"B">>, BranchY, Mitigation, No, DateText(8), Empty, Empty, New, Empty, Empty),
     Row(<<"C">>, Empty, Reconstruction, No, DateText(8), Alex, Empty, New, Empty, Empty),
     Row(<<"D">>, BranchY, Reconstruction, No, DateText(8), Alex, Empty, New, Empty, Empty),
     Row(<<"E">>, Empty, Mitigation, No, DateText(8), Empty, Empty, New, Empty, Empty)}

InitBreakdown ==
    InitWith({15}, {<< >>}, DefaultSla, {AllColumns}, BreakdownRows, MaxRows,
             RankOrders(MaxRows))

SpecBreakdown == InitBreakdown /\ [][Next]_vars

\* ---- the SLA counts: lags missing, negative, at and above each threshold
SlaRows ==
    {Row(<<"A">>, BranchX, Mitigation, Yes, DateText(8), Alex, ac[1], Completed, Job, ac[2]) :
        ac \in {<<Empty, Empty>>, <<DateText(7), Empty>>, <<DateText(9), DateText(15)>>,
                <<DateText(9), DateText(16)>>, <<DateText(10), DateText(15)>>,
                <<DateText(10), DateText(16)>>, <<Empty, DateText(16)>>,
                <<DateText(10), Junk>>}}

InitSla ==
    InitWith({15}, {<< >>}, {<<1, 7>>, <<2, 7>>, <<1, 8>>}, {AllColumns}, SlaRows, MaxRows,
             {Identity(MaxRows)})

SpecSla == InitSla /\ [][Next]_vars

\* ---- the status counts: every status, none, and near misses
StatusRows ==
    {Row(<<"A">>, BranchX, Mitigation, No, DateText(8), Empty, Empty, status, Job, Empty) :
        status \in {Empty, New, InProgress, Completed, OnHold, Done, <<"n","e","w">>,
                    <<" ","N","e","w"," ">>}}

InitStatus ==
    InitWith({15}, {<< >>}, DefaultSla, {AllColumns}, StatusRows, MaxRows,
             {Identity(MaxRows)})

SpecStatus == InitStatus /\ [][Next]_vars

\* ------------------------------------------------------------------- claims

WindowSelected == start # << >>

DefaultMode == ~WeekStartGiven

\* C1: in default mode the window starts on a Monday, ends six days later on a
\* Sunday, ends strictly before today (so today is outside it), and its end is
\* the most recent Sunday before today: end = today - (weekday + 1).
C1_LastFullWeek ==
    (WindowSelected /\ DefaultMode) =>
        /\ Weekday(start[1]) = 0
        /\ end[1] = start[1] + 6
        /\ Weekday(end[1]) = 6
        /\ Cardinality(start[1]..end[1]) = 7
        /\ end[1] < today
        /\ today \notin start[1]..end[1]
        /\ end[1] = today - (Weekday(today) + 1)
        /\ \A d \in (end[1] + 1)..(today - 1) : Weekday(d) # 6

\* Default mode, run on a Monday: the window ends the day before.
C1_Witness ==
    /\ pc = "done"
    /\ DefaultMode
    /\ Weekday(today) = 0
    /\ end = <<today - 1>>

FrameHeld == pc \in {"validate", "compute_kpis", "write_excel", "done"}

\* The CSV line numbers (from 1) whose received_date text is a date in [start, end].
LinesInWeek ==
    {i \in 1..Len(csv.rows) :
        LET d == ParseDate(csv.rows[i]["received_date"])
        IN  d # << >> /\ start[1] <= d[1] /\ d[1] <= end[1]}

\* `frame` holds exactly the lines in the week, once each, in file order, with
\* the values load_data gave them.
HoldsWeek(frame) ==
    /\ Range(frame.index) = {i - 1 : i \in LinesInWeek}
    /\ \A k \in 1..(Len(frame.index) - 1) : frame.index[k] < frame.index[k + 1]
    /\ Len(frame.rows) = Len(frame.index)
    /\ \A k \in 1..Len(frame.rows) :
          \A c \in Range(csv.columns) :
             frame.rows[k][c] = df.rows[frame.index[k] + 1][c]

\* C2: the records handed to validate, to compute_kpis and to the renderer are
\* exactly the input records whose received_date is a date with
\* start <= received_date <= end; a missing or unparsable date excludes the
\* record and does not abort the run.
C2_FilterWeek ==
    /\ FrameHeld => HoldsWeek(df_week)
    /\ pc = "done" => HoldsWeek(report[1].raw_data)
    /\ Has(df, Range(REQUIRED_COLUMNS)) => pc # "aborted"

\* A finished run whose file had an unparsable date, a record dated on the
\* window's first day and one on its last.
C2_Witness ==
    /\ pc = "done"
    /\ \E i \in 1..Len(csv.rows) : csv.rows[i]["received_date"] = Junk
    /\ \E k \in 1..Len(df_week.rows) : df_week.rows[k]["received_date"] = start
    /\ \E k \in 1..Len(df_week.rows) : df_week.rows[k]["received_date"] = end

Validated == pc \in {"compute_kpis", "write_excel", "done"}

\* The four row checks, in the order the claim gives them.
CheckFields == <<"status", "dash_job_id", "assigned_pm", "assigned_date">>

CheckFires(row, j) ==
    LET truthy == Lower(row["is_assignment"]) \in
                     {<<"y","e","s">>, <<"y">>, <<"t","r","u","e">>, <<"1">>}
    IN  CASE j = 1 -> row["status"] # Empty
                      /\ row["status"] \notin {New, InProgress, Completed, OnHold}
          [] j = 2 -> row["status"] \in {InProgress, Completed, OnHold}
                      /\ row["dash_job_id"] = Empty
          [] j = 3 -> truthy /\ row["assigned_pm"] = Empty
          [] j = 4 -> truthy /\ row["assigned_date"] = << >>

\* Every (row position, check) pair, rows first, checks within a row.
CheckSlots(frame) ==
    [m \in 1..(4 * Len(frame.rows)) |-> <<((m - 1) \div 4) + 1, ((m - 1) % 4) + 1>>]

ExpectedIssues(frame) ==
    LET fired == SelectSeq(CheckSlots(frame),
                           LAMBDA slot : CheckFires(frame.rows[slot[1]], slot[2]))
    IN  [m \in 1..Len(fired) |-> <<<<frame.index[fired[m][1]]>>, CheckFields[fired[m][2]]>>]

IssuesOfRow(errors, idx) == {m \in 1..Len(errors) : errors[m].row = <<idx>>}

\* C3: with every required column present, validate emits, row by row and in
\* this order within a row, an issue on status, dash_job_id, assigned_pm and
\* assigned_date exactly when that check fires on that row; a row yields at
\* most 3 issues, and rows are reported in iteration order.
C3_RowChecks ==
    (Validated /\ Has(df_week, Range(REQUIRED_COLUMNS))) =>
        /\ [m \in 1..Len(errors_df) |-> <<errors_df[m].row, errors_df[m].field>>]
              = ExpectedIssues(df_week)
        /\ \A k \in 1..Len(df_week.rows) :
              Cardinality(IssuesOfRow(errors_df, df_week.index[k])) \in 0..3

\* A row with three issues (invalid status, no PM, no date) is followed by a
\* row with one (no job id on a completed claim).
C3_Witness ==
    /\ Validated
    /\ Len(df_week.rows) = 2
    /\ Cardinality(IssuesOfRow(errors_df, df_week.index[1])) = 3
    /\ Cardinality(IssuesOfRow(errors_df, df_week.index[2])) = 1
    /\ errors_df[4].field = "dash_job_id"

SomeColumnAbsent(frame) ==
    \E c \in Range(REQUIRED_COLUMNS) : c \notin Range(frame.columns)

\* C4: if any required column is absent from the frame given to validate, it
\* returns exactly one issue, on row "-" and field "schema", and no row-level
\* issue, whatever the rows hold; otherwise it returns no schema-level issue.
C4_SchemaIssue ==
    Validated =>
        IF SomeColumnAbsent(df_week)
        THEN /\ Len(errors_df) = 1
             /\ errors_df[1].row = << >>
             /\ errors_df[1].field = "schema"
        ELSE \A m \in 1..Len(errors_df) :
                /\ errors_df[m].field # "schema"
                /\ errors_df[m].row # << >>

\* Two columns are absent and the week holds a row with an invalid status.
C4_Witness ==
    /\ Validated
    /\ ~HasColumn(df_week, "dash_job_id")
    /\ ~HasColumn(df_week, "assigned_pm")
    /\ HasColumn(df_week, "status")
    /\ \E k \in 1..Len(df_week.rows) : df_week.rows[k]["status"] = Done
    /\ Len(errors_df) = 1

\* C5: a run whose input lacks a required column aborts before write_excel is
\* reached, so no report is written.
C5_SchemaFatal ==
    SomeColumnAbsent(csv) => (pc \notin {"write_excel", "done"} /\ report = << >>)

KpisReturned == pc \in {"write_excel", "done"}

\* C10: compute_kpis leaves the frame it is given as it was (the columns and
\* values filter_week produced, which the renderer then gets as raw data), and
\* a second call on that frame returns the same results.
C10_ComputeKpisPure ==
    /\ KpisReturned => df_week = filter_week(df, start[1], end[1])
    /\ pc = "done" => report[1].raw_data = filter_week(df, start[1], end[1])
    /\ KpisReturned => compute_kpis(df_week, sla_assign_days, sla_complete_days,
                                    argsort_rank) = kpis[1]

RECURSIVE SumCounts(_)
SumCounts(table) ==
    IF table = << >> THEN 0 ELSE Head(table).count + SumCounts(Tail(table))

\* The rows of the frame whose column `col` holds `k`.
RowsWith(frame, col, k) == {i \in 1..Len(frame.rows) : frame.rows[i][col] = k}

\* `table` counts every value of the column, the empty one too, once.
CountsColumn(table, frame, col) ==
    /\ SumCounts(table) = Len(frame.rows)
    /\ \A i \in 1..Len(frame.rows) :
          \E g \in 1..Len(table) :
             /\ table[g].key = frame.rows[i][col]
             /\ table[g].count = Cardinality(RowsWith(frame, col, frame.rows[i][col]))
    /\ \A g, h \in 1..Len(table) : table[g].key = table[h].key => g = h

\* C6: Total Claims is the number of rows, every breakdown table's counts sum
\* to it, and the rows with an empty group key are a group of their own.
C6_BreakdownTotals ==
    KpisReturned =>
        /\ kpis[1].out.total_claims = Len(df_week.rows)
        /\ CountsColumn(kpis[1].by_branch, df_week, "branch")
        /\ CountsColumn(kpis[1].by_service, df_week, "line_of_service")
        /\ CountsColumn(kpis[1].by_pm, df_week, "assigned_pm")

\* Three claims, two of one branch and one without a branch.
C6_Witness ==
    /\ pc = "done"
    /\ kpis[1].out.total_claims = 3
    /\ \E g \in 1..Len(kpis[1].by_branch) :
          kpis[1].by_branch[g] = [key |-> Empty, count |-> 1]
    /\ \E g \in 1..Len(kpis[1].by_branch) :
          kpis[1].by_branch[g] = [key |-> BranchX, count |-> 2]

OrderedTable(table) ==
    \A g, h \in 1..Len(table) :
       g < h => \/ table[g].count > table[h].count
                \/ table[g].count = table[h].count /\ StrLess(table[g].key, table[h].key)

\* C9: each breakdown table is ordered by count descending, equal counts by
\* group key ascending.
C9_BreakdownOrder ==
    KpisReturned =>
        /\ OrderedTable(kpis[1].by_branch)
        /\ OrderedTable(kpis[1].by_service)
        /\ OrderedTable(kpis[1].by_pm)

\* The days from received_date to the date in `col`, where both are dates.
LagOver(frame, col, threshold) ==
    {i \in 1..Len(frame.rows) :
        /\ frame.rows[i][col] # << >>
        /\ frame.rows[i]["received_date"] # << >>
        /\ frame.rows[i][col][1] - frame.rows[i]["received_date"][1] > threshold}

\* C7: the assign (complete) breach count is the number of rows whose
\* assign_lag_days (resolution_days) is present and strictly greater than the
\* threshold; a lag at the threshold, negative or missing is no breach.
C7_SlaBreaches ==
    KpisReturned =>
        /\ kpis[1].out.assign_breaches
              = Cardinality(LagOver(df_week, "assigned_date", sla_assign_days))
        /\ kpis[1].out.complete_breaches
              = Cardinality(LagOver(df_week, "completed_date", sla_complete_days))

\* Three claims: a negative assign lag with no completion, both lags at their
\* thresholds, both above.
C7_Witness ==
    /\ pc = "done"
    /\ Len(df_week.rows) = 3
    /\ df_week.rows[1]["assign_lag_days"] = <<-1>>
    /\ df_week.rows[1]["resolution_days"] = << >>
    /\ df_week.rows[2]["assign_lag_days"] = <<sla_assign_days>>
    /\ df_week.rows[2]["resolution_days"] = <<sla_complete_days>>
    /\ kpis[1].out.assign_breaches = 1
    /\ kpis[1].out.complete_breaches = 1

ValidStatus(frame) ==
    {i \in 1..Len(frame.rows) : frame.rows[i]["status"] \in {New, InProgress, Completed, OnHold}}

\* C8: each per-status count is the number of rows with exactly that status;
\* their sum is at most Total Claims, and equals it iff every row has a valid
\* status.
C8_StatusCounts ==
    KpisReturned =>
        LET out == kpis[1].out
            sum == out.status[New] + out.status[InProgress] + out.status[Completed]
                   + out.status[OnHold]
        IN  /\ \A s \in {New, InProgress, Completed, OnHold} :
                  out.status[s] = Cardinality(RowsWith(df_week, "status", s))
            /\ sum <= out.total_claims
            /\ (sum = out.total_claims) <=> (ValidStatus(df_week) = 1..Len(df_week.rows))

\* Three claims: one New, one without a status, one with a status in the
\* wrong case.
C8_Witness ==
    /\ pc = "done"
    /\ Len(df_week.rows) = 3
    /\ df_week.rows[1]["status"] = New
    /\ df_week.rows[2]["status"] = Empty
    /\ df_week.rows[3]["status"] = <<"n","e","w">>
    /\ kpis[1].out.status[New] = 1

====
